---- MODULE Spec2Model ----
(***************************************************************************)
(* State-machine model of the recruitment pipeline of sagu25/hruse1:       *)
(* the LangGraph workflow (workflows/recruitment_graph.py), its five       *)
(* agents (agents/*.py), the policy retrieval helper                       *)
(* (rag/policy_vectorstore.py) and the record store they write to          *)
(* (database/db_connection.py).                                            *)
(*                                                                         *)
(* Conventions.  A Python str on which the code does substring tests is a  *)
(* sequence of one-character strings; other strs are TLA+ strings.  A      *)
(* Python dict is a function whose DOMAIN is its key set, and {} is the    *)
(* empty function.  A Python float is an exact rational [n, d] in lowest   *)
(* terms (rounding is not modelled).  A raised exception is a record       *)
(* [exc |-> name]; a normal return is [exc |-> "none", ret |-> value].     *)
(***************************************************************************)
EXTENDS Integers, Sequences, FiniteSets, TLC

\* ------------------------------------------------------------------ bounds

\* How many times run() is called on one workflow / one record store.
MaxRuns == 2

\* ------------------------------------------------------------------ dicts

EmptyDict == [k \in {} |-> 0]

\* dict.get(k, default)
Get(d, k, default) == IF k \in DOMAIN d THEN d[k] ELSE default

Ok(v) == [exc |-> "none", ret |-> v]
Raise(e) == [exc |-> e]

\* ------------------------------------------------------------------ floats

RECURSIVE Gcd(_, _)
Gcd(a, b) == IF b = 0 THEN a ELSE Gcd(b, a % b)

Abs(x) == IF x < 0 THEN -x ELSE x

\* the rational n/d in lowest terms, d > 0
Rat(n, d) ==
    LET g == Gcd(Abs(n), d)
    IN  [n |-> n \div g, d |-> d \div g]

Num(i) == Rat(i, 1)
RatAdd(x, y) == Rat(x.n * y.d + y.n * x.d, x.d * y.d)
RatDiv(x, k) == Rat(x.n, x.d * k)
RatLe(x, y) == x.n * y.d <= y.n * x.d

\* ------------------------------------------------------------------ text

Sp == <<" ">>
UpperChars == <<"A", "B", "D", "E", "H", "M", "O", "P", "S">>
LowerChars == <<"a", "b", "d", "e", "h", "m", "o", "p", "s">>

LowerChar(c) ==
    IF \E i \in 1..Len(UpperChars) : UpperChars[i] = c
    THEN LowerChars[CHOOSE i \in 1..Len(UpperChars) : UpperChars[i] = c]
    ELSE c

\* str.lower()
Lower(s) == [i \in 1..Len(s) |-> LowerChar(s[i])]

\* p in s
Contains(s, p) ==
    \E i \in 1..(Len(s) - Len(p) + 1) : SubSeq(s, i, i + Len(p) - 1) = p

\* s.split()[0] for a text with at least one non-blank character
FirstWord(s) ==
    LET start == CHOOSE i \in 1..Len(s) :
                     s[i] # " " /\ \A j \in 1..(i - 1) : s[j] = " "
        stop  == IF \E i \in start..Len(s) : s[i] = " "
                 THEN (CHOOSE i \in start..Len(s) :
                           s[i] = " " /\ \A j \in start..(i - 1) : s[j] # " ") - 1
                 ELSE Len(s)
    IN  SubSeq(s, start, stop)

T_SOE    == <<"S", "O", "E">>
T_SOE1   == <<"S", "O", "E", "-", "1">>
T_SOE2   == <<"S", "O", "E", "-", "2">>
T_soe1   == <<"s", "o", "e", "-", "1">>
T_soe2   == <<"s", "o", "e", "-", "2">>
T_Bangalore == <<"B", "a", "n", "g", "a", "l", "o", "r", "e">>
T_Mumbai    == <<"M", "u", "m", "b", "a", "i">>
T_Delhi     == <<"D", "e", "l", "h", "i">>
T_Hyderabad == <<"H", "y", "d", "e", "r", "a", "b", "a", "d">>
T_Pune      == <<"P", "u", "n", "e">>
T_mumbai    == <<"m", "u", "m", "b", "a", "i">>
T_hire      == <<"h", "i", "r", "e">>
T_unknown   == <<"u", "n", "k", "n", "o", "w", "n">>
T_Unknown   == <<"U", "n", "k", "n", "o", "w", "n">>
T_NA        == <<"N", "/", "A">>

\* ------------------------------------------------------------------ model replies

\* The text of a model reply is a sequence of segments: a json-tagged code
\* fence, a bare code fence, prose, or the text of one JSON value (json_type "dict" with
\* the dict as val, or "list" for a JSON value that is not an object).
FenceJson == [t |-> "fence_json"]
Fence     == [t |-> "fence"]
Prose     == [t |-> "prose"]
Json(v)   == [t |-> "json", v |-> v]

JDict(d) == [json_type |-> "dict", val |-> d]
JList    == [json_type |-> "list"]

JsonFence == {"fence_json"}
PlainFence == {"fence"}
AnyFence == {"fence_json", "fence"}

HasSeg(content, kinds) == \E i \in 1..Len(content) : content[i].t \in kinds
FirstSeg(content, kinds) ==
    CHOOSE i \in 1..Len(content) :
        content[i].t \in kinds /\ \A j \in 1..(i - 1) : content[j].t \notin kinds

\* content.split(sep)[1].split(fence)[0] where sep is the first fence of one
\* of the given kinds: what follows it, up to the next fence of either kind
AfterFence(content, kinds) ==
    LET rest == SubSeq(content, FirstSeg(content, kinds) + 1, Len(content))
    IN  IF HasSeg(rest, AnyFence)
        THEN SubSeq(rest, 1, FirstSeg(rest, AnyFence) - 1)
        ELSE rest

\* the "Extract JSON from markdown if present" step shared by the agents
ExtractJson(content) ==
    IF HasSeg(content, JsonFence) THEN AfterFence(content, JsonFence)
    ELSE IF HasSeg(content, PlainFence) THEN AfterFence(content, PlainFence)
    ELSE content

\* json.loads: the value when the text is exactly one JSON value
json_loads(text) ==
    IF Len(text) = 1 /\ text[1].t = "json" THEN Ok(text[1].v)
    ELSE Raise("JSONDecodeError")

\* x.get(...) on a parsed value: AttributeError unless x is a dict
IsDict(j) == j.json_type = "dict"

\* the ways a model can wrap a payload, and replies that are no JSON at all
Wrappings(v) ==
    { <<Json(v)>>,
      <<FenceJson, Json(v), Fence>>,
      <<Prose, Fence, Json(v), Fence, Prose>> }
Unparseable == { <<Prose, Json(JList)>>, <<FenceJson, Prose, Fence>> }

\* llm.invoke(messages): the reply of the model, or the call raises
LLMError == { Raise("LLMError") }
LLMInvoke(replies) == { Ok(c) : c \in replies } \cup LLMError

\* ------------------------------------------------------------------ Interpreter

\* InterpreterAgent.interpret after llm.invoke returned content
interpret(user_input, content) ==
    LET parsed == json_loads(ExtractJson(content))
    IN  IF parsed.exc = "JSONDecodeError"
        THEN Ok([ objective |-> user_input,
                  required_data |-> [ candidate_info |-> <<"name", "email", "location">>,
                                      job_details |-> <<"title", "level", "location">>,
                                      salary_bands |-> T_unknown,
                                      policies |-> <<"compensation", "hiring">> ],
                  constraints |-> <<"Follow company policies">>,
                  success_criteria |-> <<"Valid output", "Compliant with policies">>,
                  next_agent |-> "COORDINATOR",
                  raw_response |-> content ])
        ELSE IF IsDict(parsed.ret) THEN Ok(parsed.ret.val)
        ELSE Raise("AttributeError")

\* ------------------------------------------------------------------ Coordinator

\* CoordinatorAgent._extract_job_level
_extract_job_level(task) ==
    LET objective == Get(task, "objective", <<>>)
        required_data == Get(task, "required_data", EmptyDict)
        salary_band_info == Get(required_data, "salary_bands", <<>>)
    IN  IF Contains(salary_band_info, T_SOE)
        THEN IF Contains(salary_band_info, Sp) THEN FirstWord(salary_band_info)
             ELSE T_SOE1
        ELSE IF Contains(objective, T_SOE1) \/ Contains(Lower(objective), T_soe1)
             THEN T_SOE1
        ELSE IF Contains(objective, T_SOE2) \/ Contains(Lower(objective), T_soe2)
             THEN T_SOE2
        ELSE T_SOE1

Locations == <<T_Bangalore, T_Mumbai, T_Delhi, T_Hyderabad, T_Pune>>

\* an extraction that falls back to the last of the known locations
_extract_location_default_last(task) ==
    LET objective == Get(task, "objective", <<>>)
        hit(i) == Contains(Lower(objective), Lower(Locations[i]))
    IN  IF \E i \in 1..Len(Locations) : hit(i)
        THEN Locations[CHOOSE i \in 1..Len(Locations) :
                           hit(i) /\ \A j \in 1..(i - 1) : ~hit(j)]
        ELSE Locations[Len(Locations)]

\* CoordinatorAgent._extract_location
_extract_location(task) ==
    LET objective == Get(task, "objective", <<>>)
        hit(i) == Contains(Lower(objective), Lower(Locations[i]))
    IN  IF \E i \in 1..Len(Locations) : hit(i)
        THEN Locations[CHOOSE i \in 1..Len(Locations) :
                           hit(i) /\ \A j \in 1..(i - 1) : ~hit(j)]
        ELSE T_Bangalore

\* ------------------------------------------------------------------ record store

\* A salary_bands row as the schema columns of the SELECT list.
BandRow(level, loc, bmin, bmax, emin, emax) ==
    [ job_level |-> level, location |-> loc, currency |-> "INR",
      base_range_min |-> bmin, base_range_max |-> bmax,
      equity_band_min |-> emin, equity_band_max |-> emax,
      benefits_notes |-> "notes", policy_doc_id |-> "COMP-POL-India-2025-v3.2" ]

\* db.fetch_one of a SELECT ... WHERE ... LIMIT 1: the first matching row
FetchOne(rows, match(_)) ==
    IF \E i \in 1..Len(rows) : match(rows[i])
    THEN <<rows[CHOOSE i \in 1..Len(rows) :
                    match(rows[i]) /\ \A j \in 1..(i - 1) : ~match(rows[j])]>>
    ELSE <<>>

\* a lookup that takes the first row of the job level, whatever its location
_fetch_salary_bands_by_level(db, job_level, location, db_ok) ==
    LET match(r) == r.job_level = job_level
        result == FetchOne(db.salary_bands, match)
    IN  IF ~db_ok THEN Raise("DBError")
        ELSE IF result # <<>>
        THEN Ok([ job_level |-> result[1].job_level,
                  location |-> result[1].location,
                  currency |-> result[1].currency,
                  base_range_min |-> Num(result[1].base_range_min),
                  base_range_max |-> Num(result[1].base_range_max),
                  equity_band_min |-> Num(result[1].equity_band_min),
                  equity_band_max |-> Num(result[1].equity_band_max),
                  benefits_notes |-> result[1].benefits_notes,
                  policy_doc_id |-> result[1].policy_doc_id ])
        ELSE Ok(EmptyDict)

\* CoordinatorAgent._fetch_salary_bands; db_ok is whether db.fetch_one returns
_fetch_salary_bands(db, job_level, location, db_ok) ==
    LET match(r) == r.job_level = job_level /\ r.location = location
        result == FetchOne(db.salary_bands, match)
    IN  IF ~db_ok THEN Raise("DBError")
        ELSE IF result # <<>>
        THEN Ok([ job_level |-> result[1].job_level,
                  location |-> result[1].location,
                  currency |-> result[1].currency,
                  base_range_min |-> Num(result[1].base_range_min),
                  base_range_max |-> Num(result[1].base_range_max),
                  equity_band_min |-> Num(result[1].equity_band_min),
                  equity_band_max |-> Num(result[1].equity_band_max),
                  benefits_notes |-> result[1].benefits_notes,
                  policy_doc_id |-> result[1].policy_doc_id ])
        ELSE Ok(EmptyDict)

\* CoordinatorAgent._fetch_candidate_data
_fetch_candidate_data(task) ==
    [ candidate_id |-> "CAND-2025-001",
      name |-> "Raja",
      email |-> "raja@example.com",
      location |-> _extract_location(task),
      resume_attached |-> TRUE,
      status |-> "screening" ]

\* ------------------------------------------------------------------ policy retrieval

\* RAG_CONFIG["top_k"]
top_k_default == 3

\* a langchain Document
Doc(id, type, words) ==
    [ page_content |-> words, metadata |-> [policy_id |-> id, policy_type |-> type] ]

\* the fallback loop of query_policies: the stored documents of the asked
\* type (all of them when policy_type is None), in stored order, the first k
RECURSIVE FallbackFilter(_, _, _)
FallbackFilter(docs, policy_type, k) ==
    IF docs = <<>> \/ k <= 0 THEN <<>>
    ELSE IF policy_type = "None" \/ Head(docs).metadata.policy_type = policy_type
         THEN <<Head(docs)>> \o FallbackFilter(Tail(docs), policy_type, k - 1)
         ELSE FallbackFilter(Tail(docs), policy_type, k)

\* a fallback arm that returns every stored document
FallbackResultsUnfiltered(rag, policy_type, k) ==
    IF rag.has_fallback /\ rag.fallback_documents # <<>>
    THEN rag.fallback_documents
    ELSE <<>>

\* the "if hasattr(self, '_fallback_documents') and self._fallback_documents" arm
FallbackResults(rag, policy_type, k) ==
    IF rag.has_fallback /\ rag.fallback_documents # <<>>
    THEN FallbackFilter(rag.fallback_documents, policy_type, k)
    ELSE <<>>

NoneYet == { <<>> }

\* sequences without repeats over a set, of a given length
RECURSIVE Arrangements(_, _)
Arrangements(S, n) ==
    IF n = 0 THEN NoneYet
    ELSE UNION { { <<x>> \o rest : rest \in Arrangements(S \ {x}, n - 1) } : x \in S }

Min(a, b) == IF a < b THEN a ELSE b

ChromaError == { Raise("ChromaError") }

\* Chroma.similarity_search(query, k, filter): an external ranking; any
\* order of min(k, matches) stored chunks passing the filter, or it raises
SimilaritySearch(rag, policy_type, k) ==
    LET pass == { i \in 1..Len(rag.chunks) :
                      policy_type = "None"
                      \/ rag.chunks[i].metadata.policy_type = policy_type }
    IN  { Ok([j \in 1..Len(a) |-> rag.chunks[a[j]]]) :
              a \in Arrangements(pass, Min(k, Cardinality(pass))) }
        \cup ChromaError

\* PolicyRAG.query_policies(query, policy_type, top_k); top_k 0 stands for
\* None, policy_type "None" for None.  The set of results it can return.
query_policies(rag, policy_type, top_k) ==
    LET k == IF top_k # 0 THEN top_k ELSE top_k_default
    IN  IF ~rag.vectorstore THEN { FallbackResults(rag, policy_type, k) }
        ELSE { IF r.exc = "none" THEN r.ret ELSE FallbackResults(rag, policy_type, k) :
                   r \in SimilaritySearch(rag, policy_type, k) }

\* the {content, metadata} records _query_policies builds from documents
PolicyRecords(docs) ==
    [i \in 1..Len(docs) |-> [content |-> docs[i].page_content, metadata |-> docs[i].metadata]]

\* CoordinatorAgent._query_policies: the set of lists it can return
RECURSIVE QueryAll(_, _)
QueryAll(rag, policy_types) ==
    IF policy_types = <<>> THEN NoneYet
    ELSE { PolicyRecords(first) \o rest :
               first \in query_policies(rag, Head(policy_types), 0),
               rest \in QueryAll(rag, Tail(policy_types)) }

_query_policies(rag, policy_types) ==
    QueryAll(rag, IF policy_types = <<>> THEN <<"compensation">> ELSE policy_types)

\* CoordinatorAgent.coordinate: the set of outcomes, given whether the
\* salary band query returns
coordinate(db, rag, task, db_ok) ==
    LET required_data == Get(task, "required_data", EmptyDict)
        job_level == _extract_job_level(task)
        location == _extract_location(task)
        salary_bands == _fetch_salary_bands(db, job_level, location, db_ok)
    IN  IF salary_bands.exc # "none" THEN { salary_bands }
        ELSE { Ok([ salary_bands |-> salary_bands.ret,
                    candidate_data |-> _fetch_candidate_data(task),
                    policies |-> policies,
                    job_level |-> job_level,
                    location |-> location ]) :
                   policies \in _query_policies(rag, Get(required_data, "policies", <<>>)) }

\* ------------------------------------------------------------------ Researcher

\* a fallback that takes the bonus as 10% of the top of the band
FallbackCompensationBonusOfMax(salary_band) ==
    LET base_min == Get(salary_band, "base_range_min", Num(1500000))
        base_max == Get(salary_band, "base_range_max", Num(1800000))
        equity_min == Get(salary_band, "equity_band_min", Num(100))
        equity_max == Get(salary_band, "equity_band_max", Num(200))
        base_salary == RatDiv(RatAdd(base_min, base_max), 2)
        equity == RatDiv(RatAdd(equity_min, equity_max), 2)
    IN  [ base_salary |-> base_salary,
          equity |-> equity,
          bonus_target |-> RatDiv(base_max, 10),
          total_compensation |-> RatAdd(base_salary, RatDiv(base_max, 10)),
          justification |-> "Midpoint of salary band range" ]

\* the compensation_proposal of _create_fallback_proposal
FallbackCompensation(salary_band) ==
    LET base_min == Get(salary_band, "base_range_min", Num(1500000))
        base_max == Get(salary_band, "base_range_max", Num(1800000))
        equity_min == Get(salary_band, "equity_band_min", Num(100))
        equity_max == Get(salary_band, "equity_band_max", Num(200))
        base_salary == RatDiv(RatAdd(base_min, base_max), 2)
        equity == RatDiv(RatAdd(equity_min, equity_max), 2)
    IN  [ base_salary |-> base_salary,
          equity |-> equity,
          bonus_target |-> RatDiv(base_salary, 10),
          total_compensation |-> RatAdd(base_salary, RatDiv(base_salary, 10)),
          justification |-> "Midpoint of salary band range" ]

\* ResearcherAgent._create_fallback_proposal
_create_fallback_proposal(candidate_data, salary_band) ==
    [ candidate_verification |->
          [ name |-> Get(candidate_data, "name", "Unknown"),
            email |-> Get(candidate_data, "email", "unknown@example.com"),
            location |-> Get(candidate_data, "location", T_Unknown),
            suitability |-> "Candidate meets basic requirements" ],
      compensation_proposal |-> FallbackCompensation(salary_band),
      interview_schedule |->
          [ interview_type |-> "Technical + HR Interview",
            proposed_dates |-> <<"2026-01-20", "2026-01-21", "2026-01-22">>,
            recruiters |-> <<"Recruiter 1">>,
            tech_interviewers |-> <<"Tech Lead 1", "Senior Engineer 1">>,
            availability_window |-> "10:00-16:00 IST" ],
      compliance_notes |-> <<"Standard compliance checks required">> ]

\* ResearcherAgent.research after llm.invoke returned content: the parsed
\* value whatever its type, or the fallback
research(task, coordinated_data, content) ==
    LET candidate_data == Get(coordinated_data, "candidate_data", EmptyDict)
        salary_band == Get(coordinated_data, "salary_bands", EmptyDict)
        parsed == json_loads(ExtractJson(content))
    IN  IF parsed.exc = "JSONDecodeError"
        THEN Ok(JDict(_create_fallback_proposal(candidate_data, salary_band)))
        ELSE Ok(parsed.ret)

\* ------------------------------------------------------------------ Executor

\* the key of the candidates table, on which a duplicate is detected: the
\* table definition is not part of the sources; the RecordStore contract
\* keys upsert_candidate by candidate_id
CandidateKey(row) == row.candidate_id

\* a plain INSERT, without the ON DUPLICATE KEY UPDATE clause
InsertCandidate(rows, row) == Append(rows, row)

\* INSERT INTO candidates ... ON DUPLICATE KEY UPDATE name, email, location,
\* status: the row with this candidate_id is updated where it stands, and a
\* new row is added when there is none
UpsertCandidate(rows, row) ==
    IF \E i \in 1..Len(rows) : CandidateKey(rows[i]) = CandidateKey(row)
    THEN [i \in 1..Len(rows) |->
              IF CandidateKey(rows[i]) = CandidateKey(row)
              THEN [rows[i] EXCEPT !.name = row.name, !.email = row.email,
                                   !.location = row.location, !.status = row.status]
              ELSE rows[i]]
    ELSE Append(rows, row)

\* ExecutorAgent._create_candidate_record; db_ok is whether execute_query
\* returns.  Gives the candidate_id and the store afterwards.
_create_candidate_record(db, candidate_data, research_results, now, db_ok) ==
    LET verification == Get(research_results, "candidate_verification", EmptyDict)
        candidate_id == Get(candidate_data, "candidate_id", "CAND-now")
        row == [ candidate_id |-> candidate_id,
                 name |-> Get(verification, "name", Get(candidate_data, "name", "Unknown")),
                 email |-> Get(verification, "email",
                               Get(candidate_data, "email", "unknown@example.com")),
                 location |-> Get(verification, "location",
                                  Get(candidate_data, "location", T_Unknown)),
                 resume_attached |-> Get(candidate_data, "resume_attached", FALSE),
                 status |-> "interview_scheduled" ]
    IN  [ ret |-> candidate_id,
          db |-> IF db_ok
                 THEN [db EXCEPT !.candidates = UpsertCandidate(db.candidates, row)]
                 ELSE db ]

\* a schedule step that stores a row for every proposed date
_schedule_interviews_every_date(db, candidate_id, research_results, now, db_ok) ==
    LET interview_schedule == Get(research_results, "interview_schedule", EmptyDict)
        proposed_dates == Get(interview_schedule, "proposed_dates", <<>>)
        interview_log_id == <<"INT", now>>
        rows == [ i \in 1..Len(proposed_dates) |->
                    [ candidate_id |-> candidate_id,
                      interview_log_id |-> interview_log_id,
                      scheduled_date |-> proposed_dates[i],
                      status |-> "scheduled" ] ]
    IN  IF ~db_ok THEN [ret |-> <<>>, db |-> db]
        ELSE [ ret |-> [i \in 1..Len(proposed_dates) |-> interview_log_id],
               db |-> [db EXCEPT !.interview_schedules = @ \o rows] ]

\* a schedule step that notes the id before the insert is attempted
_schedule_interviews_id_before_insert(db, candidate_id, research_results, now, db_ok) ==
    LET interview_schedule == Get(research_results, "interview_schedule", EmptyDict)
        proposed_dates == Get(interview_schedule, "proposed_dates", <<>>)
        recruiters == Get(interview_schedule, "recruiters", <<"Recruiter">>)
        interview_log_id == <<"INT", now>>
        row == [ candidate_id |-> candidate_id,
                 interview_type |-> Get(interview_schedule, "interview_type",
                                        "Technical Interview"),
                 interview_log_id |-> interview_log_id,
                 scheduled_date |-> proposed_dates[1],
                 recruiter |-> recruiters[1],
                 tech_interviewer |-> Get(interview_schedule, "tech_interviewers",
                                          <<"Tech Lead">>),
                 availability_window |-> Get(interview_schedule, "availability_window",
                                             "10:00-16:00"),
                 status |-> "scheduled" ]
    IN  IF proposed_dates = <<>> THEN [ret |-> <<>>, db |-> db]
        ELSE IF recruiters = <<>> \/ ~db_ok THEN [ret |-> <<interview_log_id>>, db |-> db]
        ELSE [ ret |-> <<interview_log_id>>,
               db |-> [db EXCEPT !.interview_schedules = Append(@, row)] ]

\* ExecutorAgent._schedule_interviews: the schedule_ids and the store afterwards
_schedule_interviews(db, candidate_id, research_results, now, db_ok) ==
    LET interview_schedule == Get(research_results, "interview_schedule", EmptyDict)
        proposed_dates == Get(interview_schedule, "proposed_dates", <<>>)
        recruiters == Get(interview_schedule, "recruiters", <<"Recruiter">>)
        interview_log_id == <<"INT", now>>
        row == [ candidate_id |-> candidate_id,
                 interview_type |-> Get(interview_schedule, "interview_type",
                                        "Technical Interview"),
                 interview_log_id |-> interview_log_id,
                 scheduled_date |-> proposed_dates[1],
                 recruiter |-> recruiters[1],
                 tech_interviewer |-> Get(interview_schedule, "tech_interviewers",
                                          <<"Tech Lead">>),
                 availability_window |-> Get(interview_schedule, "availability_window",
                                             "10:00-16:00"),
                 status |-> "scheduled" ]
    IN  IF proposed_dates = <<>> THEN [ret |-> <<>>, db |-> db]
        \* recruiters[0] of an empty list is an IndexError inside the try
        ELSE IF recruiters = <<>> \/ ~db_ok THEN [ret |-> <<>>, db |-> db]
        ELSE [ ret |-> <<interview_log_id>>,
               db |-> [db EXCEPT !.interview_schedules = Append(@, row)] ]

\* a proposal insert whose failure still yields the next row id
_create_compensation_proposal_id_on_failure(db, candidate_id, research_results, db_ok) ==
    [ ret |-> Len(db.compensation_proposals) + 1,
      db |-> IF db_ok
             THEN [db EXCEPT !.compensation_proposals =
                       Append(@, [ candidate_id |-> candidate_id,
                                   base_salary |-> Num(0), equity_amount |-> Num(0),
                                   bonus_target |-> Num(0), benefits_summary |-> "",
                                   status |-> "draft" ])]
             ELSE db ]

\* ExecutorAgent._create_compensation_proposal: the proposal_id (lastrowid of
\* an auto-increment table that is never deleted from) and the store afterwards
_create_compensation_proposal(db, candidate_id, research_results, db_ok) ==
    LET compensation == Get(research_results, "compensation_proposal", EmptyDict)
        row == [ candidate_id |-> candidate_id,
                 base_salary |-> Get(compensation, "base_salary", Num(0)),
                 equity_amount |-> Get(compensation, "equity", Num(0)),
                 bonus_target |-> Get(compensation, "bonus_target", Num(0)),
                 benefits_summary |-> Get(compensation, "justification", ""),
                 status |-> "draft" ]
    IN  IF db_ok
        THEN [ ret |-> Len(db.compensation_proposals) + 1,
               db |-> [db EXCEPT !.compensation_proposals = Append(@, row)] ]
        ELSE [ret |-> 0, db |-> db]

\* an execute whose execution_status depends on the time of the call
execute_status_by_clock(db, research_results, coordinated_data, now, draft, ok) ==
    LET candidate_data == Get(coordinated_data, "candidate_data", EmptyDict)
        c == _create_candidate_record(db, candidate_data, research_results, now, ok[1])
        s == _schedule_interviews(c.db, c.ret, research_results, now, ok[2])
        p == _create_compensation_proposal(s.db, c.ret, research_results, ok[3])
    IN  IF draft.exc # "none" THEN [out |-> draft, db |-> s.db]
        ELSE [ out |-> Ok([ candidate_id |-> c.ret,
                            schedule_ids |-> s.ret,
                            proposal_id |-> p.ret,
                            email_draft |-> draft.ret,
                            execution_status |-> IF now = 0 THEN "completed" ELSE "late",
                            timestamp |-> now ]),
               db |-> p.db ]

\* ExecutorAgent.execute: the outcome and the store afterwards; draft is the
\* outcome of the llm.invoke of _draft_email, ok the outcomes of the three
\* execute_query calls
execute(db, research_results, coordinated_data, now, draft, ok) ==
    LET candidate_data == Get(coordinated_data, "candidate_data", EmptyDict)
        c == _create_candidate_record(db, candidate_data, research_results, now, ok[1])
        s == _schedule_interviews(c.db, c.ret, research_results, now, ok[2])
        p == _create_compensation_proposal(s.db, c.ret, research_results, ok[3])
    IN  IF draft.exc # "none" THEN [out |-> draft, db |-> s.db]
        ELSE [ out |-> Ok([ candidate_id |-> c.ret,
                            schedule_ids |-> s.ret,
                            proposal_id |-> p.ret,
                            email_draft |-> draft.ret,
                            execution_status |-> "completed",
                            timestamp |-> now ]),
               db |-> p.db ]

\* ------------------------------------------------------------------ Reviewer

CheckNames == <<"content_language", "compensation", "scheduling", "data_integrity">>

\* ReviewerAgent._log_compliance for a dict review_result: one INSERT per
\* entry of compliance_checks, each in its own try; failing is the set of
\* check types whose INSERT raises.  Gives the store afterwards.
RECURSIVE LogChecks(_, _, _, _, _, _)
LogChecks(db, candidate_id, checks, names, now, failing) ==
    IF names = <<>> THEN db
    ELSE LET check_type == Head(names)
             row == [ candidate_id |-> candidate_id,
                      check_type |-> check_type,
                      result |-> Get(checks[check_type], "status", "UNKNOWN"),
                      details |-> Get(checks[check_type], "details", ""),
                      checked_by |-> "REVIEWER_AGENT",
                      checked_at |-> now ]
             after == IF check_type \in DOMAIN checks /\ check_type \notin failing
                      THEN [db EXCEPT !.compliance_logs = Append(@, row)]
                      ELSE db
         IN  LogChecks(after, candidate_id, checks, Tail(names), now, failing)

_log_compliance(db, candidate_id, review_result, now, failing) ==
    IF candidate_id = "" THEN db
    ELSE LogChecks(db, candidate_id, Get(review_result, "compliance_checks", EmptyDict),
                   CheckNames, now, failing)

\* a review whose fallback verdict looks at the execution result: REJECTED,
\* with the scheduling check failed, when no interview was scheduled
review_fallback_by_schedule(db, execution_results, coordinated_data, content, now, failing) ==
    LET parsed == json_loads(ExtractJson(content))
        scheduled == Get(execution_results, "schedule_ids", <<>>) # <<>>
    IN  IF parsed.exc = "JSONDecodeError"
        THEN [ out |-> Ok([ validation_status |->
                                IF scheduled THEN "APPROVED" ELSE "REJECTED",
                            compliance_checks |->
                                [ content_language |->
                                      [status |-> "PASS", details |-> "No issues detected"],
                                  compensation |->
                                      [status |-> "PASS", details |-> "Within salary band"],
                                  scheduling |->
                                      [status |-> IF scheduled THEN "PASS" ELSE "FAIL",
                                       details |-> "Schedule looks valid"],
                                  data_integrity |->
                                      [status |-> "PASS",
                                       details |-> "All required fields present"] ],
                            issues_found |-> <<>>,
                            recommendations |-> <<>>,
                            raw_response |-> content ]),
               db |-> db ]
        ELSE IF ~IsDict(parsed.ret) THEN [out |-> Raise("AttributeError"), db |-> db]
        ELSE [ out |-> Ok(parsed.ret.val),
               db |-> _log_compliance(db, Get(execution_results, "candidate_id", ""),
                                      parsed.ret.val, now, failing) ]

\* ReviewerAgent.review after llm.invoke returned content: the outcome and
\* the store afterwards
review(db, execution_results, coordinated_data, content, now, failing) ==
    LET parsed == json_loads(ExtractJson(content))
    IN  IF parsed.exc = "JSONDecodeError"
        THEN [ out |-> Ok([ validation_status |-> "APPROVED",
                            compliance_checks |->
                                [ content_language |->
                                      [status |-> "PASS", details |-> "No issues detected"],
                                  compensation |->
                                      [status |-> "PASS", details |-> "Within salary band"],
                                  scheduling |->
                                      [status |-> "PASS", details |-> "Schedule looks valid"],
                                  data_integrity |->
                                      [status |-> "PASS",
                                       details |-> "All required fields present"] ],
                            issues_found |-> <<>>,
                            recommendations |-> <<>>,
                            raw_response |-> content ]),
               db |-> db ]
        ELSE IF ~IsDict(parsed.ret) THEN [out |-> Raise("AttributeError"), db |-> db]
        ELSE [ out |-> Ok(parsed.ret.val),
               db |-> _log_compliance(db, Get(execution_results, "candidate_id", ""),
                                      parsed.ret.val, now, failing) ]

\* ------------------------------------------------------------------ inputs

\* the latest reading of the wall clock the model distinguishes
MaxClock == 1

\* requests typed by the user
UserInputs ==
    { T_hire \o Sp \o T_SOE1 \o Sp \o T_Bangalore,
      T_hire }

\* replies to the Interpreter prompt
TaskA ==
    [ objective |-> T_hire \o Sp \o T_SOE2 \o Sp \o T_Mumbai,
      required_data |-> [ salary_bands |-> T_SOE2 \o Sp \o T_Mumbai,
                          policies |-> <<"compensation">> ],
      next_agent |-> "COORDINATOR" ]
InterpretPayloads == { JList, JDict(TaskA), JDict(EmptyDict) }

\* replies to the Researcher prompt
ProposalA ==
    [ candidate_verification |->
          [ name |-> "Raja K", email |-> "rajak@example.com",
            location |-> T_Mumbai, suitability |-> "good" ],
      compensation_proposal |->
          [ base_salary |-> Num(1700000), equity |-> Num(120),
            bonus_target |-> Num(100000), total_compensation |-> Num(1800000),
            justification |-> "within band" ],
      interview_schedule |->
          [ interview_type |-> "Technical",
            proposed_dates |-> <<"2026-02-01", "2026-02-02">>,
            recruiters |-> <<"Asha">>,
            tech_interviewers |-> <<"Vik">>,
            availability_window |-> "09:00-12:00" ],
      compliance_notes |-> <<>> ]
ResearchPayloads == { JList, JDict(ProposalA), JDict(EmptyDict) }

\* replies to the Reviewer prompt
Check(status) == [status |-> status, details |-> "checked"]
VerdictApproved ==
    [ validation_status |-> "APPROVED",
      compliance_checks |-> [ content_language |-> Check("PASS"),
                              compensation |-> Check("PASS"),
                              scheduling |-> Check("PASS"),
                              data_integrity |-> Check("PASS") ],
      issues_found |-> <<>>, recommendations |-> <<>> ]
VerdictRejected ==
    [ validation_status |-> "REJECTED",
      compliance_checks |-> [ compensation |-> Check("FAIL"),
                              scheduling |-> Check("PASS") ],
      issues_found |-> <<"above band">>, recommendations |-> <<"lower the offer">> ]
VerdictOther == [ validation_status |-> "NEEDS_REVIEW" ]
ReviewPayloads ==
    { JList, JDict(VerdictApproved), JDict(VerdictRejected), JDict(VerdictOther),
      JDict(EmptyDict) }

Replies(payloads) == Unparseable \cup UNION { Wrappings(v) : v \in payloads }

\* what a reply is, by construction: no JSON at all, JSON that is not an
\* object, or a JSON object
KindOf(r) ==
    IF r.exc # "none" THEN "llm_error"
    ELSE IF r.ret \in Unparseable THEN "unparseable"
    ELSE IF r.ret \in Wrappings(JList) THEN "nonobject"
    ELSE "object"

\* which compliance-log INSERTs raise during one review: none, one, all
FailingSets == { {}, {"compensation"}, { CheckNames[i] : i \in 1..Len(CheckNames) } }

\* record stores the program can start on
SeedBands ==
    << BandRow(T_SOE1, T_Bangalore, 1500000, 1800000, 100, 200),
       BandRow(T_SOE2, T_Mumbai, 2000000, 2600000, 200, 400) >>
StoreWith(bands) ==
    [ salary_bands |-> bands, candidates |-> <<>>, interview_schedules |-> <<>>,
      compensation_proposals |-> <<>>, compliance_logs |-> <<>> ]
InitialStores == { StoreWith(<<>>), StoreWith(SeedBands) }

\* states PolicyRAG can be in after _initialize_vectorstore
DocComp == Doc("POL-COMP-001", "compensation", <<"salary", "bonus", "equity">>)
DocHire == Doc("POL-HIRE-001", "hiring", <<"interview">>)
\* no policies in the database: an empty Chroma store, no fallback attribute
NoPolicies ==
    [vectorstore |-> TRUE, chunks |-> <<>>, has_fallback |-> FALSE,
     fallback_documents |-> <<>>]
\* Chroma.from_documents raised: no store, the documents kept for fallback
FallbackPolicies ==
    [vectorstore |-> FALSE, chunks |-> <<>>, has_fallback |-> TRUE,
     fallback_documents |-> <<DocComp, DocHire>>]
RagStates == { NoPolicies, FallbackPolicies }

\* ------------------------------------------------------------------ workflow

VARIABLES
    pc,          \* where run() is: Idle, a node name, END, Done or Failed
    state,       \* the RecruitmentState channels of the running graph
    returned,    \* what run() returned to its caller, if it did
    fault,       \* the exception run() raised, if it did
    trace,       \* the nodes invoked by this run, in order
    reply_kind,  \* per node, what kind of model reply it received in this run
    runs,        \* number of run() calls so far
    db,          \* the record store tables
    rag,         \* the PolicyRAG instance
    aliased,     \* whether a node is handed the channel's own messages list
    clock,       \* the wall clock
    upserts      \* number of candidate upserts the store has executed

vars ==
    <<pc, state, returned, fault, trace, reply_kind, runs, db, rag, aliased, clock,
      upserts>>

Nodes == <<"interpreter", "coordinator", "researcher", "executor", "reviewer">>
NodeSet == { Nodes[i] : i \in 1..Len(Nodes) }

NotReturned == [not_returned |-> TRUE]
NoFault == [stage |-> "none", exc |-> "none"]
NoReplies == [n \in NodeSet |-> "none"]

\* the initial_state dict of run()
initial_state(user_input) ==
    [ user_input |-> user_input,
      interpreted_task |-> EmptyDict,
      coordinated_data |-> EmptyDict,
      research_results |-> EmptyDict,
      execution_results |-> EmptyDict,
      review_results |-> EmptyDict,
      final_output |-> EmptyDict,
      messages |-> <<>> ]

\* a graph whose interpreter edge leads past the coordinator
EdgeSkipsCoordinator(node) ==
    CASE node = "interpreter" -> "researcher"
      [] node = "coordinator" -> "researcher"
      [] node = "researcher" -> "executor"
      [] node = "executor" -> "reviewer"
      [] node = "reviewer" -> "END"

\* a graph whose executor edge leads back to the researcher
EdgeBackToResearcher(node) ==
    CASE node = "interpreter" -> "coordinator"
      [] node = "coordinator" -> "researcher"
      [] node = "researcher" -> "executor"
      [] node = "executor" -> "researcher"
      [] node = "reviewer" -> "END"

\* the edges of _build_graph
Edge(node) ==
    CASE node = "interpreter" -> "coordinator"
      [] node = "coordinator" -> "researcher"
      [] node = "researcher" -> "executor"
      [] node = "executor" -> "reviewer"
      [] node = "reviewer" -> "END"

EntryPoint == "interpreter"

\* a channel that keeps only the entry of the latest node
MergeMessagesLatestOnly(messages, entry) == <<entry>>

\* The messages channel after a node that appended entry to state["messages"]
\* and returned the state: operator.add(channel value, returned list).  The
\* node appends in place, so the channel value already holds the entry when
\* the node was handed the channel's own list.
MergeMessages(messages, entry) ==
    LET update == Append(messages, entry)
        current == IF aliased THEN update ELSE messages
    IN  current \o update

\* before the first run(), on one of the given stores and retrieval states
InitOn(stores, rags) ==
    /\ pc = "Idle"
    /\ state = initial_state(<<>>)
    /\ returned = NotReturned
    /\ fault = NoFault
    /\ trace = <<>>
    /\ reply_kind = NoReplies
    /\ runs = 0
    /\ db \in stores
    /\ rag \in rags
    /\ aliased \in BOOLEAN
    /\ clock = 0
    /\ upserts = 0

Init == InitOn(InitialStores, RagStates)

\* where a run() can start: before the first, after one returned or raised
RunReady == {"Idle", "Done", "Failed"}

\* a run() that hands the graph the state of the run before it, with the new
\* request in it
RunOnSameState(inputs, max_runs) ==
    /\ pc \in RunReady
    /\ runs < max_runs
    /\ \E user_input \in inputs : state' = [state EXCEPT !.user_input = user_input]
    /\ pc' = EntryPoint
    /\ returned' = NotReturned
    /\ fault' = NoFault
    /\ trace' = <<>>
    /\ reply_kind' = NoReplies
    /\ runs' = runs + 1
    /\ UNCHANGED <<db, rag, aliased, clock, upserts>>

\* RecruitmentWorkflow.run up to workflow.invoke: a fresh initial_state
Run(inputs, max_runs) ==
    /\ pc \in RunReady
    /\ runs < max_runs
    /\ \E user_input \in inputs : state' = initial_state(user_input)
    /\ pc' = EntryPoint
    /\ returned' = NotReturned
    /\ fault' = NoFault
    /\ trace' = <<>>
    /\ reply_kind' = NoReplies
    /\ runs' = runs + 1
    /\ UNCHANGED <<db, rag, aliased, clock, upserts>>

\* a node whose exception is swallowed: the graph goes on to the next node
FailsSwallowed(node, exc) ==
    /\ pc' = Edge(node)
    /\ fault' = [stage |-> node, exc |-> exc]
    /\ UNCHANGED state

\* a node raised: invoke propagates it out of run()
Fails(node, exc) ==
    /\ pc' = "Failed"
    /\ fault' = [stage |-> node, exc |-> exc]
    /\ UNCHANGED state

\* a node that appends its message and leaves its field as it was
WritesMessageOnly(node, field, value, entry) ==
    /\ state' = [state EXCEPT !.messages = MergeMessages(state.messages, entry)]
    /\ pc' = Edge(node)
    /\ UNCHANGED fault

\* a node that also compiles final_output from the fields set so far
WritesAndCompiles(node, field, value, entry) ==
    /\ state' = [state EXCEPT ![field] = value,
                              !.messages = MergeMessages(state.messages, entry),
                              !.final_output = [ candidate |-> state.execution_results,
                                                 research |-> state.research_results,
                                                 review |-> state.review_results ]]
    /\ pc' = Edge(node)
    /\ UNCHANGED fault

\* a node returned the state with one field set and one message appended
Writes(node, field, value, entry) ==
    /\ state' = [state EXCEPT ![field] = value,
                              !.messages = MergeMessages(state.messages, entry)]
    /\ pc' = Edge(node)
    /\ UNCHANGED fault

\* _interpreter_node
InterpreterNode(llm) ==
    /\ pc = "interpreter"
    /\ trace' = Append(trace, "interpreter")
    /\ \E r \in llm :
          LET out == IF r.exc # "none" THEN r ELSE interpret(state.user_input, r.ret)
          IN  /\ reply_kind' = [reply_kind EXCEPT !["interpreter"] = KindOf(r)]
              /\ IF out.exc # "none" THEN Fails("interpreter", out.exc)
                 ELSE Writes("interpreter", "interpreted_task", out.ret,
                             [ stage |-> "INTERPRETER",
                               objective |-> Get(out.ret, "objective", T_NA) ])
    /\ UNCHANGED <<returned, runs, db, rag, aliased, clock, upserts>>

\* _coordinator_node
CoordinatorNode(db_outcomes) ==
    /\ pc = "coordinator"
    /\ trace' = Append(trace, "coordinator")
    /\ \E db_ok \in db_outcomes :
          \E out \in coordinate(db, rag, state.interpreted_task, db_ok) :
              IF out.exc # "none" THEN Fails("coordinator", out.exc)
              ELSE Writes("coordinator", "coordinated_data", out.ret,
                          [ stage |-> "COORDINATOR",
                            job_level |-> Get(out.ret, "job_level", T_NA) ])
    /\ UNCHANGED <<returned, reply_kind, runs, db, rag, aliased, clock, upserts>>

\* _researcher_node
ResearcherNode(llm) ==
    /\ pc = "researcher"
    /\ trace' = Append(trace, "researcher")
    /\ \E r \in llm :
          LET out == IF r.exc # "none" THEN r
                     ELSE research(state.interpreted_task, state.coordinated_data, r.ret)
          IN  /\ reply_kind' = [reply_kind EXCEPT !["researcher"] = KindOf(r)]
              /\ IF out.exc # "none" THEN Fails("researcher", out.exc)
                 \* research_results.get on a value that is not a dict
                 ELSE IF ~IsDict(out.ret) THEN Fails("researcher", "AttributeError")
                 ELSE Writes("researcher", "research_results", out.ret.val,
                             [ stage |-> "RESEARCHER",
                               base_salary |->
                                   Get(Get(out.ret.val, "compensation_proposal", EmptyDict),
                                       "base_salary", Num(0)) ])
    /\ UNCHANGED <<returned, runs, db, rag, aliased, clock, upserts>>

\* _executor_node
ExecutorNode(llm, db_outcomes) ==
    /\ pc = "executor"
    /\ trace' = Append(trace, "executor")
    /\ \E draft \in llm, ok \in db_outcomes, now \in clock..MaxClock :
          LET res == execute(db, state.research_results, state.coordinated_data,
                             now, draft, ok)
          IN  /\ reply_kind' = [reply_kind EXCEPT !["executor"] = KindOf(draft)]
              /\ db' = res.db
              /\ clock' = now
              /\ upserts' = IF ok[1] THEN upserts + 1 ELSE upserts
              /\ IF res.out.exc # "none" THEN Fails("executor", res.out.exc)
                 ELSE Writes("executor", "execution_results", res.out.ret,
                             [ stage |-> "EXECUTOR",
                               candidate_id |-> Get(res.out.ret, "candidate_id", "N/A") ])
    /\ UNCHANGED <<returned, runs, rag, aliased>>

\* _reviewer_node
ReviewerNode(llm, db_outcomes) ==
    /\ pc = "reviewer"
    /\ trace' = Append(trace, "reviewer")
    /\ \E r \in llm, failing \in db_outcomes, now \in clock..MaxClock :
          LET res == IF r.exc # "none" THEN [out |-> r, db |-> db]
                     ELSE review(db, state.execution_results, state.coordinated_data,
                                 r.ret, now, failing)
          IN  /\ reply_kind' = [reply_kind EXCEPT !["reviewer"] = KindOf(r)]
              /\ db' = res.db
              /\ clock' = IF r.exc # "none" THEN clock ELSE now
              /\ IF res.out.exc # "none"
                 THEN Fails("reviewer", res.out.exc)
                 ELSE /\ state' =
                           [state EXCEPT
                               !.review_results = res.out.ret,
                               !.messages = MergeMessages(
                                   state.messages,
                                   [ stage |-> "REVIEWER",
                                     validation_status |->
                                         Get(res.out.ret, "validation_status", "N/A") ]),
                               !.final_output =
                                   [ candidate |-> state.execution_results,
                                     research |-> state.research_results,
                                     review |-> res.out.ret ]]
                      /\ pc' = Edge("reviewer")
                      /\ UNCHANGED fault
    /\ UNCHANGED <<returned, runs, rag, aliased, upserts>>

\* run() after workflow.invoke returned: return final_state["final_output"]
RunReturn ==
    /\ pc = "END"
    /\ returned' = state.final_output
    /\ pc' = "Done"
    /\ UNCHANGED <<state, fault, trace, reply_kind, runs, db, rag, aliased, clock, upserts>>

\* one run() of a fresh workflow, as run_example and the web app make it
InterpreterReplies == LLMInvoke(Replies(InterpretPayloads))
ResearcherReplies == LLMInvoke(Replies(ResearchPayloads))
ReviewerReplies == LLMInvoke(Replies(ReviewPayloads))
DraftReplies == LLMInvoke({ <<Prose>> })
\* whether each of the three Executor writes goes through
WriteOutcomes == [1..3 -> BOOLEAN]
\* whether the Coordinator's reads go through
ReadOutcomes == BOOLEAN

Next ==
    \/ Run(UserInputs, 1)
    \/ InterpreterNode(InterpreterReplies)
    \/ CoordinatorNode(ReadOutcomes)
    \/ ResearcherNode(ResearcherReplies)
    \/ ExecutorNode(DraftReplies, WriteOutcomes)
    \/ ReviewerNode(ReviewerReplies, FailingSets)
    \/ RunReturn

Spec == Init /\ [][Next]_vars

\* interactive_mode: run() after run() on one workflow and one record store,
\* with replies that parse or do not, and writes that succeed or do not
SeededStores == { StoreWith(SeedBands) }
EmptyRags == { NoPolicies }
HireInputs == { T_hire }
ReadsSucceed == { TRUE }
LogsSucceed == { {} }
SessionInterpreterReplies == { Ok(<<Prose, Json(JList)>>), Raise("LLMError") }
SessionResearcherReplies == { Ok(<<Prose, Json(JList)>>), Ok(<<Json(JDict(ProposalA))>>) }
SessionReviewerReplies == { Ok(<<Prose, Json(JList)>>), Ok(<<Json(JDict(VerdictRejected))>>) }

SessionInit == InitOn(SeededStores, EmptyRags)

SessionNext ==
    \/ Run(HireInputs, MaxRuns)
    \/ InterpreterNode(SessionInterpreterReplies)
    \/ CoordinatorNode(ReadsSucceed)
    \/ ResearcherNode(SessionResearcherReplies)
    \/ ExecutorNode(DraftReplies, WriteOutcomes)
    \/ ReviewerNode(SessionReviewerReplies, LogsSucceed)
    \/ RunReturn

SessionSpec == SessionInit /\ [][SessionNext]_vars

\* Research on a band of any shape, with replies that do not parse
FallbackBands ==
    { BandRow(T_SOE1, T_Bangalore, bmin, bmax, emin, emax) :
          bmin \in {0, 1500000, 1500001}, bmax \in {1800000, 1800001, 2000000},
          emin \in {0, 100}, emax \in {200, 201} }

FallbackStores == { StoreWith(<<b>>) : b \in FallbackBands } \cup { StoreWith(<<>>) }
FallbackInterpreterReplies == { Ok(<<Prose, Json(JList)>>) }
FallbackResearcherReplies == { Ok(c) : c \in Unparseable }

FallbackInit == InitOn(FallbackStores, EmptyRags)

FallbackNext ==
    \/ Run(HireInputs, 1)
    \/ InterpreterNode(FallbackInterpreterReplies)
    \/ CoordinatorNode(ReadsSucceed)
    \/ ResearcherNode(FallbackResearcherReplies)

FallbackSpec == FallbackInit /\ [][FallbackNext]_vars

\* Coordinate on interpreted tasks of any wording, over policy documents
\* stored in any order
Join(a, b) == IF a = <<>> THEN b ELSE IF b = <<>> THEN a ELSE a \o Sp \o b
Words == { <<>>, T_hire, T_SOE, T_SOE1, T_soe1, T_SOE2, T_soe2, T_Bangalore,
           T_Mumbai, T_mumbai, T_Pune }
Texts == { Join(a, b) : a \in Words, b \in Words }
BandInfos == { T_unknown, T_SOE2 \o Sp \o T_Mumbai, T_SOE2, T_hire \o Sp \o T_SOE2 }
CoordinateTasks ==
    { [objective |-> o] : o \in Texts }
    \cup { [ objective |-> o,
             required_data |-> [salary_bands |-> b, policies |-> <<"compensation">>] ] :
               o \in { T_hire, T_hire \o Sp \o T_SOE2 \o Sp \o T_Pune }, b \in BandInfos }

DocA == Doc("POL-COMP-001", "compensation", <<"compensation", "policy", "information">>)
DocB == Doc("POL-COMP-002", "compensation", <<"policy", "gratuity">>)
CoordinateRags ==
    { NoPolicies,
      [vectorstore |-> FALSE, chunks |-> <<>>, has_fallback |-> FALSE,
       fallback_documents |-> <<>>],
      [vectorstore |-> FALSE, chunks |-> <<>>, has_fallback |-> TRUE,
       fallback_documents |-> <<DocA, DocHire, DocB>>],
      [vectorstore |-> FALSE, chunks |-> <<>>, has_fallback |-> TRUE,
       fallback_documents |-> <<DocB, DocHire, DocA>>],
      [vectorstore |-> TRUE, chunks |-> <<DocB, DocA>>, has_fallback |-> TRUE,
       fallback_documents |-> <<DocB, DocA>>] }

CoordinateInterpreterReplies == { Ok(<<Json(JDict(t))>>) : t \in CoordinateTasks }

CoordinateInit == InitOn(SeededStores, CoordinateRags) /\ aliased

CoordinateNext ==
    \/ Run(HireInputs, 1)
    \/ InterpreterNode(CoordinateInterpreterReplies)
    \/ CoordinatorNode(ReadsSucceed)

CoordinateSpec == CoordinateInit /\ [][CoordinateNext]_vars

\* Research on a band of any shape, with replies that parse to a proposal,
\* one of them carrying an amount below zero, and replies that do not parse
ProposalBelowZero ==
    [ ProposalA EXCEPT !.compensation_proposal.base_salary = Num(-50000),
                       !.compensation_proposal.total_compensation = Num(50000) ]
ProposalResearcherReplies ==
    FallbackResearcherReplies
        \cup { Ok(<<Json(JDict(ProposalA))>>), Ok(<<FenceJson, Json(JDict(ProposalBelowZero)), Fence>>) }

ProposalsInit == InitOn(FallbackStores, EmptyRags)

ProposalsNext ==
    \/ Run(HireInputs, 1)
    \/ InterpreterNode(FallbackInterpreterReplies)
    \/ CoordinatorNode(ReadsSucceed)
    \/ ResearcherNode(ProposalResearcherReplies)

ProposalsSpec == ProposalsInit /\ [][ProposalsNext]_vars

\* Coordinate on tasks asking for one policy type, several or none, over
\* retrieval states holding more documents of a type than top_k
PolicyDocs ==
    << DocA, DocHire, DocB,
       Doc("POL-COMP-003", "compensation", <<"bonus">>),
       Doc("POL-COMP-004", "compensation", <<"equity">>) >>
PolicyRags ==
    { NoPolicies,
      [vectorstore |-> FALSE, chunks |-> <<>>, has_fallback |-> FALSE,
       fallback_documents |-> <<>>],
      [vectorstore |-> FALSE, chunks |-> <<>>, has_fallback |-> TRUE,
       fallback_documents |-> PolicyDocs],
      [vectorstore |-> TRUE, chunks |-> PolicyDocs, has_fallback |-> FALSE,
       fallback_documents |-> <<>>],
      [vectorstore |-> TRUE, chunks |-> PolicyDocs, has_fallback |-> TRUE,
       fallback_documents |-> PolicyDocs] }
PolicyLists == { <<>>, <<"compensation">>, <<"hiring">>, <<"leave">>, <<"hiring", "compensation">> }
PolicyTasks ==
    { [ objective |-> T_hire, required_data |-> [policies |-> l] ] : l \in PolicyLists }
PolicyInterpreterReplies == { Ok(<<Json(JDict(t))>>) : t \in PolicyTasks }

PoliciesInit == InitOn(SeededStores, PolicyRags)

PoliciesNext ==
    \/ Run(HireInputs, 1)
    \/ InterpreterNode(PolicyInterpreterReplies)
    \/ CoordinatorNode(ReadsSucceed)

PoliciesSpec == PoliciesInit /\ [][PoliciesNext]_vars

\* Coordinate on tasks of any wording, over a store with no band row, with
\* one row per level and location, and with two rows for one of them
BandStores ==
    { StoreWith(<<>>),
      StoreWith(SeedBands),
      StoreWith(<< BandRow(T_SOE2, T_Mumbai, 2000000, 2600000, 200, 400),
                   BandRow(T_SOE1, T_Bangalore, 1500000, 1800000, 100, 200),
                   BandRow(T_SOE1, T_Bangalore, 1600000, 1900000, 150, 250) >>) }

BandsInit == InitOn(BandStores, EmptyRags)

BandsNext ==
    \/ Run(HireInputs, 1)
    \/ InterpreterNode(CoordinateInterpreterReplies)
    \/ CoordinatorNode(ReadOutcomes)

BandsSpec == BandsInit /\ [][BandsNext]_vars

\* interactive_mode with a request about one candidate followed by a request
\* about another: no two consecutive requests are the same
T_raja == <<"r", "a", "j", "a">>
T_asha == <<"a", "s", "h", "a">>
CandidateInputs == { T_hire \o Sp \o T_raja, T_hire \o Sp \o T_asha }

WritesSucceed == { [i \in 1..3 |-> TRUE] }

CandidatesInit == InitOn(SeededStores, EmptyRags)

CandidatesNext ==
    \/ Run(CandidateInputs, MaxRuns) /\ state'.user_input # state.user_input
    \/ InterpreterNode(FallbackInterpreterReplies)
    \/ CoordinatorNode(ReadsSucceed)
    \/ ResearcherNode(SessionResearcherReplies)
    \/ ExecutorNode(DraftReplies, WritesSucceed)
    \/ ReviewerNode(SessionReviewerReplies, LogsSucceed)
    \/ RunReturn

CandidatesSpec == CandidatesInit /\ [][CandidatesNext]_vars

\* the steps of a run once it has started: each is a blocking call that
\* returns or raises, after which the node hands the state on, and run()
\* returns when the graph has ended
LiveStages ==
    \/ InterpreterNode(SessionInterpreterReplies)
    \/ CoordinatorNode(ReadOutcomes)
    \/ ResearcherNode(SessionResearcherReplies)
    \/ ExecutorNode(DraftReplies, WritesSucceed)
    \/ ReviewerNode(SessionReviewerReplies, LogsSucceed)
    \/ RunReturn

LiveNext == Run(HireInputs, MaxRuns) \/ LiveStages

\* a session in which no call hangs
LiveSpec == SessionInit /\ [][LiveNext]_vars /\ WF_vars(LiveStages)

\* ------------------------------------------------------------------ claims

StageNames == <<"INTERPRETER", "COORDINATOR", "RESEARCHER", "EXECUTOR", "REVIEWER">>
ValidationStatuses == {"APPROVED", "REJECTED"}
ParseFailures == {"unparseable", "nonobject"}
CallErrors == {"LLMError", "DBError"}
ParsingNodes == {"interpreter", "researcher", "reviewer"}
EmptyStore == db.salary_bands = <<>> /\ rag = NoPolicies

\* C1: whenever run() returns normally, the five nodes interpreter,
\* coordinator, researcher, executor, reviewer were each invoked exactly
\* once during that run, in that order.
C1_StagesOnceInOrder ==
    (pc = "Done" \/ returned # NotReturned) => trace = Nodes

C1_Witness == pc = "Done" /\ returned # NotReturned /\ Len(trace) = 5

\* C2: in the final state of a successful run the messages list holds
\* exactly one entry per stage, in the order Interpret, Coordinate,
\* Research, Execute, Review.
C2_AuditLogOneEntryPerStage ==
    pc = "Done" =>
        [i \in 1..Len(state.messages) |-> state.messages[i].stage] = StageNames

\* C3: the final_output a successful run returns has a review whose
\* validation_status is present and is APPROVED or REJECTED.
C3_ValidationStatusInEnum ==
    returned # NotReturned =>
        /\ "validation_status" \in DOMAIN returned.review
        /\ returned.review.validation_status \in ValidationStatuses

\* C4: once a node has raised, run() is Failed with that fault, it has
\* returned no final_output, the failing node is the last one invoked and no
\* later node was invoked, and the graph state holds no final_output; a
\* final_output is returned only after all five nodes ran without a fault.
C4_FaultEndsRunWithoutOutput ==
    /\ (pc = "Failed") <=> (fault.stage # "none")
    /\ fault.stage # "none" =>
           /\ returned = NotReturned
           /\ state.final_output = EmptyDict
           /\ trace = SubSeq(Nodes, 1, Len(trace))
           /\ trace[Len(trace)] = fault.stage
           /\ fault.exc # "none"
    /\ returned # NotReturned =>
           /\ fault = NoFault
           /\ \A i \in 1..Len(Nodes) : \E j \in 1..Len(trace) : trace[j] = Nodes[i]

C4_Witness ==
    pc = "Failed" /\ fault.stage = "researcher" /\ returned = NotReturned

\* C5: a parsing stage (Interpret, Research, Review) whose reply is not a
\* JSON object, because it is no JSON at all or because it is JSON of another
\* type, does not raise, and the run goes on past it.
C5_ParseFailureNeverRaises ==
    \A n \in ParsingNodes :
        reply_kind[n] \in ParseFailures => fault.stage # n

\* C6: on an empty store (no salary band rows, no policy documents), with the
\* model answering every call and the store answering every query, run()
\* never raises, and the final_output it returns has candidate, research and
\* review populated.
C6_EmptyStoreNeverThrows ==
    EmptyStore =>
        /\ pc = "Failed" => fault.exc \in CallErrors
        /\ returned # NotReturned =>
               /\ returned.candidate # EmptyDict
               /\ returned.research # EmptyDict
               /\ returned.review # EmptyDict

\* C7: when the Research reply does not parse and Coordinate found a band,
\* the compensation_proposal is base_salary = (base_range_min +
\* base_range_max)/2, equity = (equity_band_min + equity_band_max)/2,
\* bonus_target = base_salary/10 and total_compensation = base_salary +
\* bonus_target; the band 1,500,000..1,800,000 and 100..200 gives 1,650,000,
\* 150, 165,000 and 1,815,000.
C7_FallbackMidpointLaw ==
    (pc = "executor" /\ reply_kind["researcher"] = "unparseable"
       /\ state.coordinated_data.salary_bands # EmptyDict) =>
        LET row == db.salary_bands[1]
            cp == state.research_results.compensation_proposal
            base == cp.base_salary
            bonus == cp.bonus_target
            total == cp.total_compensation
        IN  /\ 2 * base.n = (row.base_range_min + row.base_range_max) * base.d
            /\ 2 * cp.equity.n = (row.equity_band_min + row.equity_band_max) * cp.equity.d
            /\ 10 * bonus.n * base.d = base.n * bonus.d
            /\ total.n * base.d * bonus.d = (base.n * bonus.d + bonus.n * base.d) * total.d
            /\ (row.base_range_min = 1500000 /\ row.base_range_max = 1800000
                  /\ row.equity_band_min = 100 /\ row.equity_band_max = 200) =>
                   /\ base = [n |-> 1650000, d |-> 1]
                   /\ cp.equity = [n |-> 150, d |-> 1]
                   /\ bonus = [n |-> 165000, d |-> 1]
                   /\ total = [n |-> 1815000, d |-> 1]

C7_Witness ==
    /\ pc = "executor" /\ reply_kind["researcher"] = "unparseable"
    /\ state.coordinated_data.salary_bands # EmptyDict
    /\ db.salary_bands[1].base_range_min = 1500000
    /\ db.salary_bands[1].base_range_max = 1800000
    /\ db.salary_bands[1].equity_band_min = 100
    /\ db.salary_bands[1].equity_band_max = 200
    /\ state.research_results.compensation_proposal.total_compensation.n = 1815000

\* C8: the store never holds two candidate rows with one candidate_id, and
\* an Execute on a store that already holds rows leaves each of them at its
\* place with its candidate_id: no row is added for an id already there.
OneRowPerCandidateId(rows) ==
    \A i, j \in 1..Len(rows) : rows[i].candidate_id = rows[j].candidate_id => i = j

C8_CandidateUpsertInPlace ==
    [][ /\ OneRowPerCandidateId(db'.candidates)
        /\ Len(db'.candidates) >= Len(db.candidates)
        /\ \A i \in 1..Len(db.candidates) :
               db'.candidates[i].candidate_id = db.candidates[i].candidate_id
        /\ (upserts' > upserts /\ pc' = "reviewer") =>
               \E i \in 1..Len(db'.candidates) :
                   /\ db'.candidates[i].candidate_id = state'.execution_results.candidate_id
                   /\ db'.candidates[i].status = "interview_scheduled"
                   /\ db'.candidates[i].name =
                          Get(Get(state.research_results, "candidate_verification",
                                  EmptyDict),
                              "name", state.coordinated_data.candidate_data.name) ]_vars

\* two upserts of the same candidate_id went through, with different names,
\* and the store holds the one row, carrying the second name
C8_Witness ==
    /\ upserts = 2 /\ runs = 2 /\ pc = "reviewer"
    /\ Len(db.candidates) = 1
    /\ db.candidates[1].candidate_id = "CAND-2025-001"
    /\ db.candidates[1].name = "Raja K"
    /\ \E i \in 1..Len(db.compensation_proposals) :
           db.compensation_proposals[i].base_salary = Num(1650000)

\* C9: for an interpreted task whose objective and salary_bands text name no
\* job level and no location, Coordinate does not fail and resolves job_level
\* SOE-1 and location Bangalore.
NamesNoLevel(text) == ~Contains(Lower(text), <<"s", "o", "e">>)
NamesNoLocation(text) ==
    \A i \in 1..Len(Locations) : ~Contains(Lower(text), Lower(Locations[i]))
NoKeywords(task) ==
    LET objective == Get(task, "objective", <<>>)
        info == Get(Get(task, "required_data", EmptyDict), "salary_bands", <<>>)
    IN  /\ NamesNoLevel(objective) /\ NamesNoLevel(info)
        /\ NamesNoLocation(objective) /\ NamesNoLocation(info)

C9_DefaultLevelAndLocation ==
    (Len(trace) >= 2 /\ NoKeywords(state.interpreted_task)) =>
        /\ pc = "researcher"
        /\ state.coordinated_data.job_level = T_SOE1
        /\ state.coordinated_data.location = T_Bangalore
        /\ state.coordinated_data.candidate_data.location = T_Bangalore

C9_Witness ==
    /\ pc = "researcher"
    /\ state.interpreted_task.objective = T_hire
    /\ "required_data" \in DOMAIN state.interpreted_task
    /\ state.interpreted_task.required_data.salary_bands = T_unknown
    /\ state.coordinated_data.job_level = T_SOE1
    /\ state.coordinated_data.location = T_Bangalore

\* C10: the documents query_policies returns for one policy type are ordered
\* by the number of words of the query they contain: a document with more
\* of them comes before a document with fewer.
QueryWords(policy_type) == {"Retrieve", policy_type, "policy", "information"}
Overlap(policy) ==
    Cardinality({ w \in QueryWords(policy.metadata.policy_type) :
                      \E i \in 1..Len(policy.content) : policy.content[i] = w })

C10_PoliciesRankedByKeywordOverlap ==
    pc = "researcher" =>
        LET policies == state.coordinated_data.policies
        IN  \A i, j \in 1..Len(policies) :
                ( /\ policies[i].metadata.policy_type = policies[j].metadata.policy_type
                  /\ Overlap(policies[i]) > Overlap(policies[j]) ) => i < j

\* C11: final_output is the empty default until the reviewer node has
\* produced its result; it is written by that one step of a run and by no
\* other, and its value is candidate = execution_results, research =
\* research_results, review = review_results.
Compiled(st) ==
    [ candidate |-> st.execution_results,
      research |-> st.research_results,
      review |-> st.review_results ]

BeforeOutput == NodeSet \cup {"Idle", "Failed"}
Completed == {"END", "Done"}

C11_FinalOutputOnceAfterReview ==
    [][ /\ state'.final_output # state.final_output =>
               \/ pc = "reviewer" /\ pc' = "END" /\ state'.final_output = Compiled(state')
               \/ pc \in RunReady /\ pc' = EntryPoint /\ state'.final_output = EmptyDict
        /\ pc' \in BeforeOutput => state'.final_output = EmptyDict
        /\ pc' \in Completed => state'.final_output = Compiled(state') ]_vars

C11_Witness ==
    /\ pc = "Done"
    /\ returned = Compiled(state)
    /\ Get(returned.review, "validation_status", "N/A") = "REJECTED"
    /\ returned.candidate.execution_status = "completed"
    /\ "compensation_proposal" \in DOMAIN returned.research

\* C12: a node step leaves user_input as it is, leaves the result field of
\* every other stage as it is, leaves final_output as it is unless the node
\* is the reviewer, and only extends the messages log: what the log held
\* before the step is a prefix of what it holds after.
StageFields ==
    <<"interpreted_task", "coordinated_data", "research_results", "execution_results",
      "review_results">>
IsPrefix(a, b) == Len(a) <= Len(b) /\ SubSeq(b, 1, Len(a)) = a

C12_StagesOnlyAddToState ==
    [][ (pc \in NodeSet) =>
            ( /\ state'.user_input = state.user_input
              /\ \A i \in 1..Len(Nodes) :
                     Nodes[i] # pc => state'[StageFields[i]] = state[StageFields[i]]
              /\ pc # "reviewer" => state'.final_output = state.final_output
              /\ IsPrefix(state.messages, state'.messages) ) ]_vars

C12_Witness ==
    /\ pc = "END"
    /\ state.user_input = T_hire
    /\ state.interpreted_task = TaskA
    /\ state.coordinated_data.job_level = T_SOE2
    /\ state.research_results = ProposalA
    /\ state.execution_results.schedule_ids # <<>>
    /\ state.review_results = VerdictApproved
    /\ Len(state.messages) > Len(Nodes)

\* C13: whichever of the three writes of Execute fail, when the email draft
\* came back the executor step does not raise: the run goes on to the
\* reviewer with execution_status completed and the candidate_id of the
\* coordinated candidate, with no schedule_ids when no schedule row was
\* stored and proposal_id 0 when no proposal row was stored.
C13_WriteFailuresDoNotAbortExecute ==
    [][ (pc = "executor" /\ reply_kind'["executor"] # "llm_error") =>
            ( /\ pc' = "reviewer"
              /\ fault' = NoFault
              /\ state'.execution_results.execution_status = "completed"
              /\ state'.execution_results.candidate_id =
                     state.coordinated_data.candidate_data.candidate_id
              /\ db'.interview_schedules = db.interview_schedules =>
                     state'.execution_results.schedule_ids = <<>>
              /\ db'.compensation_proposals = db.compensation_proposals =>
                     state'.execution_results.proposal_id = 0 ) ]_vars

\* all three writes failed for a proposal with dates, and the reviewer is next
C13_Witness ==
    /\ pc = "reviewer"
    /\ state.research_results = ProposalA
    /\ db.candidates = <<>>
    /\ db.interview_schedules = <<>>
    /\ db.compensation_proposals = <<>>
    /\ state.execution_results.execution_status = "completed"
    /\ state.execution_results.candidate_id = "CAND-2025-001"
    /\ state.execution_results.schedule_ids = <<>>
    /\ state.execution_results.proposal_id = 0

\* C14: an executor step stores at most one interview_schedules row and
\* returns at most one schedule id, however many dates the research result
\* proposes; the row stored is for the first proposed date, and with no
\* proposed date no row is stored.
ProposedDates(research_results) ==
    Get(Get(research_results, "interview_schedule", EmptyDict), "proposed_dates", <<>>)

C14_AtMostOneScheduleRowPerExecute ==
    [][ (pc = "executor") =>
            ( /\ Len(db'.interview_schedules) <= Len(db.interview_schedules) + 1
              /\ IsPrefix(db.interview_schedules, db'.interview_schedules)
              /\ pc' = "reviewer" =>
                     /\ Len(state'.execution_results.schedule_ids) <= 1
                     /\ Len(state'.execution_results.schedule_ids) =
                            Len(db'.interview_schedules) - Len(db.interview_schedules)
              /\ Len(db'.interview_schedules) > Len(db.interview_schedules) =>
                     /\ ProposedDates(state.research_results) # <<>>
                     /\ db'.interview_schedules[Len(db'.interview_schedules)].scheduled_date
                            = ProposedDates(state.research_results)[1] ) ]_vars

\* three dates were proposed and one row, for the first of them, was stored
C14_Witness ==
    /\ pc = "reviewer"
    /\ Len(ProposedDates(state.research_results)) = 3
    /\ Len(db.interview_schedules) = 1
    /\ db.interview_schedules[1].scheduled_date = "2026-01-20"
    /\ Len(state.execution_results.schedule_ids) = 1

\* C15: when a run has completed, compliance_logs holds a row of the run's
\* candidate for each of the four named checks, content_language,
\* compensation, scheduling and data_integrity.
C15_ComplianceRowPerNamedCheck ==
    pc \in Completed =>
        \A k \in 1..Len(CheckNames) :
            \E i \in 1..Len(db.compliance_logs) :
                /\ db.compliance_logs[i].check_type = CheckNames[k]
                /\ db.compliance_logs[i].candidate_id = state.execution_results.candidate_id

\* C16: when a run has completed and Coordinate found a salary band, the
\* research result holds a compensation_proposal whose base_salary is at
\* least base_range_min and at most base_range_max of that band.
C16_BaseSalaryWithinBand ==
    (pc \in Completed /\ state.coordinated_data.salary_bands # EmptyDict) =>
        LET band == state.coordinated_data.salary_bands
            proposal == Get(state.research_results, "compensation_proposal", EmptyDict)
        IN  /\ "base_salary" \in DOMAIN proposal
            /\ RatLe(band.base_range_min, proposal.base_salary)
            /\ RatLe(proposal.base_salary, band.base_range_max)

\* C17: when the researcher node substituted the fallback for a reply that
\* did not parse, the messages log it leaves differs from the log the same
\* node leaves, from the same state, when a reply that parses gives the
\* same research_results.
ResearcherEntry(research_results) ==
    [ stage |-> "RESEARCHER",
      base_salary |-> Get(Get(research_results, "compensation_proposal", EmptyDict),
                          "base_salary", Num(0)) ]

C17_FallbackRecordedInAuditLog ==
    [][ (pc = "researcher" /\ pc' = "executor"
           /\ reply_kind'["researcher"] = "unparseable") =>
            LET parsed == research(state.interpreted_task, state.coordinated_data,
                                   <<Json(JDict(state'.research_results))>>)
            IN  ~( /\ parsed.ret.val = state'.research_results
                   /\ MergeMessages(state.messages, ResearcherEntry(parsed.ret.val))
                          = state'.messages ) ]_vars

\* C18: when the Reviewer reply did not parse, review_results has
\* validation_status APPROVED, compliance_checks with exactly the four named
\* checks, each with status PASS, and empty issues_found and
\* recommendations, whatever the execution result and the coordinated data.
CheckNameSet == { CheckNames[i] : i \in 1..Len(CheckNames) }

C18_ReviewFallbackApprovesAll ==
    (pc \in Completed /\ reply_kind["reviewer"] = "unparseable") =>
        /\ state.review_results.validation_status = "APPROVED"
        /\ DOMAIN state.review_results.compliance_checks = CheckNameSet
        /\ \A name \in CheckNameSet :
               state.review_results.compliance_checks[name].status = "PASS"
        /\ state.review_results.issues_found = <<>>
        /\ state.review_results.recommendations = <<>>

\* approved by the fallback although nothing of the execution was stored
C18_Witness ==
    /\ pc = "END"
    /\ reply_kind["reviewer"] = "unparseable"
    /\ state.review_results.validation_status = "APPROVED"
    /\ state.execution_results.schedule_ids = <<>>
    /\ state.execution_results.proposal_id = 0
    /\ state.coordinated_data.salary_bands = EmptyDict

\* C19: when the second run of a session is about another candidate than
\* the first, the candidate_id its Execute returns is the candidate_id of no
\* row the first run stored.
C19_CandidateIdPerCandidate ==
    [][ (pc = "executor" /\ pc' = "reviewer" /\ runs = 2) =>
            \A i \in 1..Len(db.candidates) :
                db.candidates[i].candidate_id # state'.execution_results.candidate_id ]_vars

\* C20: when a node is about to run, the nodes before it have run, in
\* order, and no other; the state it is handed holds the result of each of
\* them (the value its message was written from) and the empty default for
\* the stages still to come; the coordinated data handed to the researcher
\* and to the later nodes has all five of its keys, and the execution result
\* handed to the reviewer is a completed one.
StageEntry(j, st) ==
    CASE j = 1 -> [ stage |-> "INTERPRETER",
                    objective |-> Get(st.interpreted_task, "objective", T_NA) ]
      [] j = 2 -> [ stage |-> "COORDINATOR",
                    job_level |-> Get(st.coordinated_data, "job_level", T_NA) ]
      [] j = 3 -> ResearcherEntry(st.research_results)
      [] j = 4 -> [ stage |-> "EXECUTOR",
                    candidate_id |-> Get(st.execution_results, "candidate_id", "N/A") ]
CoordinatedKeys == {"salary_bands", "candidate_data", "policies", "job_level", "location"}

C21_OneGenerationCallPerStage ==
    pc \in Completed => \A n \in NodeSet : reply_kind[n] # "none"

\* C22: in every run of a session, the first as well as a later one, the
\* state the graph starts on is the fresh initial_state of the request; when
\* a node is about to run the fields of the stages still to come and
\* final_output are the empty default, nothing has been returned, and every
\* entry of the messages log is the entry of a stage this run has been
\* through, written from the value this run gave that stage; the output of a
\* completed run is compiled from the fields of this run.
ReviewerEntry(st) ==
    [ stage |-> "REVIEWER",
      validation_status |-> Get(st.review_results, "validation_status", "N/A") ]
OwnEntries(n, st) ==
    { StageEntry(j, st) : j \in 1..Min(n, 4) }
        \cup { ReviewerEntry(st) : j \in Len(Nodes)..n }
LogIsOwn(n, st) ==
    \A i \in 1..Len(st.messages) : st.messages[i] \in OwnEntries(n, st)

C22_RunOwnsFreshState ==
    /\ pc = EntryPoint => state = initial_state(state.user_input)
    /\ \A k \in 1..Len(Nodes) :
           pc = Nodes[k] =>
               /\ \A j \in k..Len(Nodes) : state[StageFields[j]] = EmptyDict
               /\ state.final_output = EmptyDict
               /\ returned = NotReturned
               /\ LogIsOwn(k - 1, state)
    /\ pc \in Completed =>
           /\ LogIsOwn(Len(Nodes), state)
           /\ state.final_output = Compiled(state)
    /\ pc = "Done" => returned = Compiled(state)

\* the first run stored the proposal of a parsed reply and was rejected; the
\* second run, on the same workflow, completed on the fallback proposal
C22_Witness ==
    /\ runs = 2 /\ pc = "Done"
    /\ Len(db.compensation_proposals) = 2
    /\ db.compensation_proposals[1].base_salary = Num(1700000)
    /\ Len(db.compliance_logs) > 0
    /\ returned.research.compensation_proposal.base_salary = Num(1650000)
    /\ returned.review.validation_status = "APPROVED"

\* C23: once the researcher node has set research_results, each of
\* base_salary, equity, bonus_target and total_compensation that its
\* compensation_proposal holds is a number not below zero.
AmountFields == {"base_salary", "equity", "bonus_target", "total_compensation"}

C23_ProposalAmountsNotNegative ==
    pc = "executor" =>
        LET proposal == Get(state.research_results, "compensation_proposal", EmptyDict)
        IN  \A f \in AmountFields :
                f \in DOMAIN proposal => RatLe(Num(0), proposal[f])

\* C24: on every retrieval state, for every policy type (or none) and every
\* top_k (or none), each result query_policies can return holds at most k
\* documents, k being top_k when given and the configured default otherwise,
\* and only documents of the asked type when a type is given; with no vector
\* store and no fallback documents the result is empty.  And the policies
\* Coordinate gathered for a task asking for one type are at most the
\* default k, all of that type.
MaxTopK == 4
QueryTypes == {"None", "compensation", "hiring", "leave"}

CappedAndOfType(docs, policy_type, k) ==
    /\ Len(docs) <= k
    /\ policy_type # "None" =>
           \A i \in 1..Len(docs) : docs[i].metadata.policy_type = policy_type

BandMatches(rows, job_level, location) ==
    { i \in 1..Len(rows) : rows[i].job_level = job_level /\ rows[i].location = location }

C25_BandByExactMatchFirstRow ==
    [][ (pc = "coordinator") =>
            ( /\ pc' = "Failed" => fault'.exc = "DBError"
              /\ pc' = "researcher" =>
                   LET data == state'.coordinated_data
                       hits == BandMatches(db.salary_bands, data.job_level, data.location)
                   IN  /\ DOMAIN data = CoordinatedKeys
                       /\ hits = {} <=> data.salary_bands = EmptyDict
                       /\ \A i \in hits :
                              (\A j \in hits : i <= j) =>
                                  /\ data.salary_bands.job_level = db.salary_bands[i].job_level
                                  /\ data.salary_bands.location = db.salary_bands[i].location
                                  /\ data.salary_bands.base_range_min =
                                         Num(db.salary_bands[i].base_range_min)
                                  /\ data.salary_bands.base_range_max =
                                         Num(db.salary_bands[i].base_range_max) ) ]_vars

\* no row for SOE-2 in Pune: the run went on with an empty band
C25_Witness ==
    /\ pc = "researcher"
    /\ db.salary_bands # <<>>
    /\ state.coordinated_data.job_level = T_SOE2
    /\ state.coordinated_data.location = T_Pune
    /\ state.coordinated_data.salary_bands = EmptyDict
    /\ state.coordinated_data.candidate_data.location = T_Pune

\* C26: when no call hangs, a run that is in a stage eventually is at Done
\* or at Failed; and the node a run moves to is never one this run has
\* already been through.
Finished == {"Done", "Failed"}

C26_RunEndsAndNeverReenters ==
    /\ [](pc \in NodeSet => <>(pc \in Finished))
    /\ [][ (pc' \in NodeSet /\ pc' # pc) =>
               \A i \in 1..Len(trace') : trace'[i] # pc' ]_vars

\* the second run of a session failed in its first stage after the first
\* run went through all five
C26_Witness ==
    /\ runs = 2 /\ pc = "Failed" /\ fault.stage = "coordinator"
    /\ Len(db.compliance_logs) > 0

\* C27: at the executor and at the reviewer, the two nodes that read the
\* wall clock, the same state, store, model reply and store-call outcomes
\* give the same outcome whatever the clock reads: the node raises in both
\* or in neither, and the results are equal once timestamp and the
\* clock-made schedule ids are put aside.  The other three nodes do not read
\* the clock.
ClockReadings == 0..MaxClock
Unclocked(out) ==
    IF out.exc # "none" THEN out
    ELSE IF "timestamp" \in DOMAIN out.ret
    THEN Ok([out.ret EXCEPT !.timestamp = 0,
                            !.schedule_ids = [i \in 1..Len(@) |-> "INT"]])
    ELSE out

NamesLevel(text, level) == Contains(Lower(text), Lower(level))
IdentifiesOnlySOE2(task) ==
    LET objective == Get(task, "objective", <<>>)
        info == Get(Get(task, "required_data", EmptyDict), "salary_bands", <<>>)
    IN  /\ NamesLevel(objective, T_SOE2) \/ NamesLevel(info, T_SOE2)
        /\ ~NamesLevel(objective, T_SOE1) /\ ~NamesLevel(info, T_SOE1)

C28_SOE2Resolved ==
    (pc = "researcher" /\ IdentifiesOnlySOE2(state.interpreted_task)) =>
        state.coordinated_data.job_level = T_SOE2

\* C29: every row of interview_schedules, compensation_proposals and
\* compliance_logs carries the candidate_id of a row of candidates.
HasCandidate(candidate_id) ==
    \E i \in 1..Len(db.candidates) : db.candidates[i].candidate_id = candidate_id
RefersToCandidate(rows) ==
    \A i \in 1..Len(rows) : HasCandidate(rows[i].candidate_id)

C29_RowsReferToStoredCandidate ==
    /\ RefersToCandidate(db.interview_schedules)
    /\ RefersToCandidate(db.compensation_proposals)
    /\ RefersToCandidate(db.compliance_logs)

\* C30: after an executor step that returned, schedule_ids is the list of
\* the interview_log_id of the rows the step added to interview_schedules,
\* in order: an id whose insert failed is not in it, and the id of every
\* row that was inserted is.
C30_ScheduleIdsAreInsertedRows ==
    [][ (pc = "executor" /\ pc' = "reviewer") =>
            LET before == Len(db.interview_schedules)
                added == SubSeq(db'.interview_schedules, before + 1,
                                Len(db'.interview_schedules))
            IN  /\ SubSeq(db'.interview_schedules, 1, before) = db.interview_schedules
                /\ state'.execution_results.schedule_ids =
                       [i \in 1..Len(added) |-> added[i].interview_log_id] ]_vars

\* dates were proposed, the schedule insert failed and the proposal insert
\* went through: no id is listed
C30_Witness ==
    /\ pc = "reviewer"
    /\ ProposedDates(state.research_results) # <<>>
    /\ db.interview_schedules = <<>>
    /\ state.execution_results.schedule_ids = <<>>
    /\ state.execution_results.proposal_id = 1
    /\ Len(db.candidates) = 1

====
